---- MODULE Spec2Model ----
(***************************************************************************)
(* FreeCarnival: the install, update, uninstall and verify commands, the   *)
(* delta manifests of an update and the chunked download pipeline          *)
(* (build_from_manifest): tree planning, write plan, driver with memory    *)
(* and download semaphores, fetch tasks, chunk channel and ordered writer. *)
(***************************************************************************)
EXTENDS Integers, Sequences, FiniteSets, TLC

\* ---------------------------------------------------------------- bounds
MaxChunks == 3          \* rows of a chunk manifest
MaxPerFile == 2         \* chunks of one file
MaxMemChunks == 3       \* max_memory_usage, in whole chunks
MaxWorkers == 2         \* max_download_workers
MaxFaults == 1          \* fetches that fail or return corrupted bytes

\* ------------------------------------------------------------- constants
MAX_CHUNK_SIZE == 1048576
DIRECTORY_FLAG == 40

Slug == "g1"
OtherSlug == "g2"
Slugs == {Slug, OtherSlug}
FileNames == <<"A", "B", "C">>

\* chunk payloads and their SHA-256 (lowercase hex), an injective table
Payloads == {"b1", "b2", "bad"}
PayloadSize(b) == IF b = "b2" THEN 1 ELSE MAX_CHUNK_SIZE
Sha256(b) == CASE b = "b1" -> "h1"
               [] b = "b2" -> "h2"
               [] OTHER -> "hx"

\* "Chunk SHA" fields, as their underscore-separated segments
ChunkShas == { <<"h1">>, <<"d", "1", "h2">> }
\* the bytes the CDN holds under a chunk sha
Served(sha) == CHOOSE b \in Payloads : Sha256(b) = sha[Len(sha)]

VARIABLES
  installed,      \* persisted InstalledConfig: slug -> version or "none"
  installed0,     \* the persisted map when the command started
  opts,           \* InstallOpts
  mpc,            \* position of main / utils::install
  installRes,     \* what utils::install returned to main
  fm, cm,         \* file manifest and chunk manifest handed to the pipeline
  fs,             \* install tree: path -> [kind, content]
  dpc,            \* position of build_from_manifest (the driver)
  row,            \* next manifest row of the current phase
  file_chunk_num_map,
  write_queue,    \* the write plan
  task,           \* state of the fetch task of each chunk manifest row
  got,            \* bytes in the hands of / fetched by each fetch task
  chan,           \* the chunk channel (tx -> rx), FIFO
  in_buffer,      \* writer: chunk key -> (file_path, bytes, permit)
  file_map,       \* writer: paths with an open handle
  wpc,            \* position of the write task
  whold,          \* writer: entry being appended (permit not yet dropped)
  result,         \* what build_from_manifest returned
  appended,       \* log of the appends performed by the writer
  faults,
  cmd,            \* the command of this run
  keep,           \* uninstall --keep
  fs0,            \* the install tree when the command started
  old_fm,         \* ManifestStore: file manifest of the installed version
  new_fm, new_cm, \* ManifestStore: manifests stored for the target version
  product,        \* Product.version, the versions the library lists
  os,             \* the --os argument, None when absent
  target_os,      \* the platform the binary was built for
  latest,         \* what Product::get_latest_version returned
  raw,            \* the bytes of a "File Name" / "Filepath" field
  decoded,        \* the String from_latin1_str made of them, as its UTF-8
  encoded,        \* the bytes to_latin1_bytes serialized
  tx_alive,       \* the driver holds its Sender of the chunk channel
  dropped,        \* appends and sends done when the pipeline was dropped
  delta_store,    \* ManifestStore: the delta manifests under "<old>_<new>"
  delta_store0    \* the same when this attempt of the update started

vars == <<installed, installed0, opts, mpc, installRes, fm, cm, fs, dpc, row,
          file_chunk_num_map, write_queue, task, got, chan, in_buffer,
          file_map, wpc, whold, result, appended, faults, cmd, keep,
          fs0, old_fm, new_fm, new_cm, product, os, target_os, latest, raw,
          decoded, encoded, tx_alive, dropped, delta_store, delta_store0>>

args == <<opts, cmd, keep, fs0, old_fm, product, os, target_os, raw,
          tx_alive>>
storeVars == <<new_fm, new_cm>>
libVars == <<latest, decoded, encoded, dropped>>
cacheVars == <<delta_store, delta_store0>>

pipeVars == <<fs, dpc, row, file_chunk_num_map, write_queue, task, got, chan,
              in_buffer, file_map, wpc, whold, result, appended, faults>>

\* ------------------------------------------------------------- manifests
NoTag == "none"
ChangeTags == {"Added", "Modified", "Removed"}
\* SHA-256 of a file's bytes, the file being the chunks of `content` in order
FileSha(content) == [i \in 1..Len(content) |-> Sha256(content[i])]
\* the bytes of the file whose chunk rows carry the shas `shas`
Content(shas) == [i \in 1..Len(shas) |-> Served(shas[i])]

FileRow(name, shas) ==
  [file_name |-> name, chunks |-> Len(shas), flags |-> 0, tag |-> NoTag,
   size_in_bytes |-> Len(shas), sha |-> FileSha(Content(shas))]
DirRow(name) ==
  [file_name |-> name, chunks |-> 0, flags |-> DIRECTORY_FLAG, tag |-> NoTag,
   size_in_bytes |-> 0, sha |-> <<>>]
ChunkRow(id, path, sha) == [id |-> id, file_path |-> path, sha |-> sha]

is_directory(r) == r.flags = DIRECTORY_FLAG
is_empty(r) == r.size_in_bytes = 0

\* chunk rows of one file: ids 0..n-1 in ascending order
FileChunks(name, shas) ==
  [i \in 1..Len(shas) |-> ChunkRow(i - 1, name, shas[i])]

ShaSeqs(n) == [1..n -> ChunkShas]

\* chunk counts per file, in file manifest order
RECURSIVE Total(_)
Total(ns) == IF ns = <<>> THEN 0 ELSE Head(ns) + Total(Tail(ns))
Counts ==
  { ns \in [1..Len(FileNames) -> 0..MaxPerFile] : Total(ns) <= MaxChunks }

RECURSIVE Rows(_, _, _)
\* the chunk rows of files k.. with counts ns and shas taken from ss
Rows(k, ns, ss) ==
  IF k > Len(ns) THEN <<>>
  ELSE FileChunks(FileNames[k], SubSeq(ss, 1, ns[k]))
         \o Rows(k + 1, ns, SubSeq(ss, ns[k] + 1, Len(ss)))

RECURSIVE Offset(_, _)
\* chunk rows before those of file k
Offset(ns, k) == IF k = 1 THEN 0 ELSE ns[k - 1] + Offset(ns, k - 1)

\* manifest pairs the CDN can serve: chunk rows grouped by file, ids
\* contiguous from 0, count equal to the file row's chunk count
ManifestPairs ==
  UNION { { [fm |-> [k \in 1..Len(FileNames) |->
                       FileRow(FileNames[k],
                               SubSeq(ss, Offset(ns, k) + 1,
                                      Offset(ns, k) + ns[k]))],
             cm |-> Rows(1, ns, ss)] : ss \in ShaSeqs(Total(ns)) } :
          ns \in Counts }

\* what a manifest says of one name: not listed, a directory, or a file
\* given by the shas of its chunks
Unlisted == <<"unlisted", <<>>>>
DirEntry == <<"dir", <<>>>>
FileEntry(shas) == <<"file", shas>>

RECURSIVE EntryRows(_, _)
EntryRows(es, k) ==
  IF k > Len(es) THEN <<>>
  ELSE (CASE es[k][1] = "dir" -> <<DirRow(FileNames[k])>>
          [] es[k][1] = "file" -> <<FileRow(FileNames[k], es[k][2])>>
          [] OTHER -> <<>>)
         \o EntryRows(es, k + 1)

RECURSIVE EntryChunks(_, _)
EntryChunks(es, k) ==
  IF k > Len(es) THEN <<>>
  ELSE (IF es[k][1] = "file" THEN FileChunks(FileNames[k], es[k][2])
                             ELSE <<>>)
         \o EntryChunks(es, k + 1)

\* the manifest pair of a version: rows in name order, chunk rows grouped by
\* file in the order of the file manifest
ManifestOf(es) == [fm |-> EntryRows(es, 1), cm |-> EntryChunks(es, 1)]

\* the chunk shas of the files compared: 0..MaxPerFile chunks of one sha,
\* and one chunk of another sha
FileShaSeqs ==
  { [i \in 1..n |-> <<"h1">>] : n \in 0..MaxPerFile }
    \cup { << <<"d", "1", "h2">> >> }
DeltaEntries == {Unlisted, DirEntry} \cup {FileEntry(x) : x \in FileShaSeqs}
DeltaManifests ==
  { ManifestOf(es) : es \in [1..Len(FileNames) -> DeltaEntries] }
Reverse(q) == [i \in 1..Len(q) |-> q[Len(q) + 1 - i]]

\* --max-memory-usage: below one chunk, one chunk, MaxMemChunks chunks
MemoryChoices ==
  {MAX_CHUNK_SIZE - 1, MAX_CHUNK_SIZE, MaxMemChunks * MAX_CHUNK_SIZE}
\* --max-download-workers
WorkerChoices == {1, MaxWorkers}

Absent == [kind |-> "absent", content |-> <<>>]
EmptyFile == [kind |-> "file", content |-> <<>>]
Dir == [kind |-> "dir", content |-> <<>>]
Paths == {FileNames[i] : i \in 1..Len(FileNames)}

\* ------------------------------------------------------------------ Init
Commands == {"install", "update", "uninstall"}
AllOpts ==
  [max_memory_usage : MemoryChoices, max_download_workers : WorkerChoices,
   skip_verify : BOOLEAN, info : BOOLEAN]
\* Commands::Uninstall has no InstallOpts
NoOpts ==
  [max_memory_usage |-> MAX_CHUNK_SIZE, max_download_workers |-> 1,
   skip_verify |-> FALSE, info |-> FALSE]

NothingInstalled == [k \in 1..Len(FileNames) |-> Unlisted]
\* what an earlier install left in the install tree
InstalledChoices ==
  { <<FileEntry(<<x>>), DirEntry, Unlisted>> : x \in ChunkShas }
\* the install tree of a finished install
TreeOf(es) ==
  [p \in Paths |->
     LET k == CHOOSE i \in 1..Len(FileNames) : FileNames[i] = p IN
     CASE es[k][1] = "dir" -> Dir
       [] es[k][1] = "file" -> [kind |-> "file", content |-> Content(es[k][2])]
       [] OTHER -> Absent]

\* manifests an update can be given for the target version
UpdateEntries ==
  {Unlisted, DirEntry} \cup {FileEntry(<<x>>) : x \in ChunkShas}
UpdateManifests ==
  { ManifestOf(es) : es \in [1..Len(FileNames) -> UpdateEntries] }

\* ------------------------------------------------- models.rs: the library
MaxVersions == 3        \* versions a product lists
MaxNameLen == 2         \* bytes of a sampled file name
Dates == 1..3           \* build dates (NaiveDateTime), in their order
BuildOs == {"Windows", "Linux", "Mac"}
None == "None"
NoVersion == 0
\* Product.version: a version is referred to by its position in the Vec
Products ==
  UNION { [1..n -> [os : BuildOs, date : Dates]] : n \in 0..MaxVersions }

\* the os a version must have; without --os the platform of the build decides
valid_os(version, build_os, target) ==
  IF build_os # None THEN version.os = build_os
  ELSE IF target = "macos" THEN version.os = "Mac"
                           ELSE version.os = "Windows"

\* version.date > v.date
newer_Never(version, v) == FALSE
newer(version, v) == version.date > v.date

\* the closure of the fold: acc and the version at position k
fold_step(versions, acc, k, build_os, target) ==
  IF ~valid_os(versions[k], build_os, target) THEN acc
  ELSE IF acc = NoVersion THEN k
  ELSE IF newer(versions[k], versions[acc]) THEN k ELSE acc

RECURSIVE fold(_, _, _, _, _)
fold(versions, k, acc, build_os, target) ==
  IF k > Len(versions) THEN acc
  ELSE fold(versions, k + 1, fold_step(versions, acc, k, build_os, target),
            build_os, target)

get_latest_version(versions, build_os, target) ==
  fold(versions, 1, NoVersion, build_os, target)

\* bytes and code points are numbers; a String is the UTF-8 of its chars
Bytes == 0..255
SampleBytes == {0, 65, 127, 128, 191, 192, 233, 255}
\* every one-byte name, and the names over the sampled bytes
LatinNames ==
  { <<b>> : b \in Bytes }
    \cup UNION { [1..n -> SampleBytes] : n \in 0..MaxNameLen }

RECURSIVE Concat(_)
Concat(ss) == IF ss = <<>> THEN <<>> ELSE Head(ss) \o Concat(Tail(ss))

\* char::from(u8): the code point of the same value
char_from(b) == b
\* String: FromIterator<char>, the UTF-8 encoding of code points below 0x800
encode_utf8(c) ==
  IF c < 128 THEN <<c>> ELSE <<192 + (c \div 64), 128 + (c % 64)>>
collect(cs) == Concat([i \in DOMAIN cs |-> encode_utf8(cs[i])])

\* str::chars: the code points of a String
RECURSIVE chars_decode(_)
chars_decode(string) ==
  IF string = <<>> THEN <<>>
  ELSE IF string[1] < 128
         THEN <<string[1]>> \o chars_decode(Tail(string))
         ELSE <<(string[1] - 192) * 64 + (string[2] - 128)>>
                \o chars_decode(Tail(Tail(string)))
chars_AsBytes(string) == string
chars(string) == chars_decode(string)

\* c as u8: the low eight bits of the code point
as_u8(c) == c % 256

from_latin1_str(s) == collect([i \in DOMAIN s |-> char_from(s[i])])
to_latin1_bytes(string) ==
  [i \in DOMAIN chars(string) |-> as_u8(chars(string)[i])]

\* a file of the manifest directory: tokio::fs::read is Err when it is absent
NoFile == [present |-> FALSE, bytes |-> <<>>]
File(bytes) == [present |-> TRUE, bytes |-> bytes]
EmptyStore == [delta |-> NoFile, delta_chunks |-> NoFile]

\* the future of build_from_manifest has not been dropped
NotDropped == [appends |-> -1, sent |-> -1]

\* a run that uses neither function
NoLibrary ==
  /\ product = <<>> /\ os = None /\ target_os = "linux"
  /\ latest = NoVersion
  /\ raw = <<>> /\ decoded = <<>> /\ encoded = <<>>

Init ==
  /\ cmd \in Commands
  /\ installed \in { [s \in Slugs |-> IF s = Slug THEN v ELSE "v0"] :
                       v \in {"none", "v0"} }
  /\ installed0 = installed
  /\ opts \in IF cmd = "uninstall" THEN {NoOpts} ELSE AllOpts
  /\ keep \in IF cmd = "uninstall" THEN BOOLEAN ELSE {FALSE}
  /\ mpc = "start"
  /\ installRes = "none"
  /\ fm = <<>> /\ cm = <<>>
  /\ \E es \in IF \/ cmd = "install"
                    \/ (cmd = "update" /\ installed[Slug] = "none")
                 THEN {NothingInstalled} ELSE InstalledChoices :
       /\ fs = TreeOf(es)
       /\ fs0 = fs
       /\ old_fm = IF installed[Slug] = "none" THEN <<>>
                                                ELSE ManifestOf(es).fm
  /\ dpc = "idle"
  /\ row = 1
  /\ file_chunk_num_map = [p \in {} |-> 0]
  /\ write_queue = <<>>
  /\ task = <<>>
  /\ got = <<>>
  /\ chan = <<>>
  /\ in_buffer = [k \in {} |-> 0]
  /\ file_map = {}
  /\ wpc = "unspawned"
  /\ whold = <<>>
  /\ result = "none"
  /\ appended = <<>>
  /\ faults = 0
  /\ new_fm = <<>> /\ new_cm = <<>>
  /\ NoLibrary
  /\ tx_alive = TRUE
  /\ dropped = NotDropped
  /\ delta_store = EmptyStore
  /\ delta_store0 = delta_store

\* ------------------------------------------------------------ semaphores
\* install_opts.max_memory_usage / *MAX_CHUNK_SIZE, the permits of the memory
\* semaphore
max_chunks_in_memory_RoundedUp(o) ==
  (o.max_memory_usage + MAX_CHUNK_SIZE - 1) \div MAX_CHUNK_SIZE
max_chunks_in_memory(o) == o.max_memory_usage \div MAX_CHUNK_SIZE

Indices(t, states) == {i \in DOMAIN t : t[i] \in states}
ChanPermits(c) == Cardinality({i \in DOMAIN c : c[i].permit})
BufPermits(b) == Cardinality({k \in DOMAIN b : b[k].permit})
HoldPermits(h) == Cardinality({i \in DOMAIN h : h[i].permit})

\* memory permits out of the semaphore: owned by a fetch task, travelling in
\* a channel message, parked in the writer's buffer or in the writer's hands
MemPermitsOut ==
  Cardinality(Indices(task, {"spawned", "downloading"}))
    + ChanPermits(chan) + BufPermits(in_buffer) + HoldPermits(whold)
MemAvailable == max_chunks_in_memory(opts) - MemPermitsOut

DlPermitsOut == Cardinality(Indices(task, {"downloading"}))
DlPermitFree_Always(out, workers) == TRUE
DlPermitFree(out, workers) == out < workers

\* ------------------------------------------------------ main and install
Version == "v1"

\* main.rs: Commands::Install up to the call of utils::install
MainInstallStart ==
  /\ mpc = "start"
  /\ cmd = "install"
  /\ IF installed[Slug] # "none" /\ ~opts.info
       THEN mpc' = "exit"
       ELSE \E o \in {"ok", "not_in_library", "version_not_found"} :
              mpc' = IF o = "ok" THEN "install" ELSE "exit"
  /\ UNCHANGED <<installed, installed0, args, libVars, cacheVars, storeVars,
                 installRes, fm, cm, pipeVars>>

\* utils::install up to the call of build_from_manifest
InstallFetch ==
  /\ mpc = "install"
  /\ \/ \* product or build number not found, or a manifest request failed
        /\ \E r \in {"Ok(Err)", "Err"} : installRes' = r
        /\ mpc' = "handle"
        /\ UNCHANGED <<fm, cm, dpc>>
     \/ \* store_build_manifest failed: expect() panics
        /\ mpc' = "panicked"
        /\ UNCHANGED <<installRes, fm, cm, dpc>>
     \/ /\ opts.info
        /\ installRes' = "Ok(None)"
        /\ mpc' = "handle"
        /\ UNCHANGED <<fm, cm, dpc>>
     \/ /\ ~opts.info
        /\ \E m \in ManifestPairs : fm' = m.fm /\ cm' = m.cm
        /\ mpc' = "build"
        /\ dpc' = "phaseA"
        /\ UNCHANGED installRes
  /\ new_fm' = fm' /\ new_cm' = cm'
  /\ UNCHANGED <<installed, installed0, args, libVars, cacheVars, fs, row, file_chunk_num_map,
                 write_queue, task, got, chan, in_buffer, file_map, wpc,
                 whold, result, appended, faults>>

InstallResult(res) == IF res = "Ok(true)" THEN "Ok(Some)" ELSE "Ok(Err)"

\* utils::install after build_from_manifest returned
InstallReturn ==
  /\ mpc = "build"
  /\ cmd = "install"
  /\ dpc = "returned"
  /\ IF result = "Err"
       THEN mpc' = "panicked" /\ UNCHANGED installRes
       ELSE mpc' = "handle" /\ installRes' = InstallResult(result)
  /\ UNCHANGED <<installed, installed0, args, libVars, cacheVars, storeVars, fm, cm, pipeVars>>

ShouldPersist_Always(res) == TRUE
ShouldPersist(res) == res = "Ok(Some)"

\* main.rs: the match on the result of utils::install
MainInstallHandle ==
  /\ mpc = "handle"
  /\ cmd = "install"
  /\ installed' = IF ShouldPersist(installRes)
                    THEN [installed EXCEPT ![Slug] = Version]
                    ELSE installed
  /\ mpc' = "exit"
  /\ UNCHANGED <<installed0, args, libVars, cacheVars, storeVars, installRes, fm, cm, pipeVars>>

\* --------------------------------------------- update: delta manifests
Tagged(r, t) == [r EXCEPT !.tag = t]
new_file_names(new) == {new[i].file_name : i \in DOMAIN new}

\* old_manifest_iter.iter().any(|entry| entry.file_name == name)
any(old, name) == \E i \in DOMAIN old : old[i].file_name = name
\* old_manifest_iter.iter().find(|entry| entry.file_name == name)
find_Last(old, name) == old[Len(old)]
find(old, name) ==
  old[CHOOSE i \in DOMAIN old :
        /\ old[i].file_name = name
        /\ \A j \in 1..(i - 1) : old[j].file_name # name]

added_Always(old, new_entry) == TRUE
added(old, new_entry) == ~any(old, new_entry.file_name)
modified_Never(old, new_entry) == FALSE
modified(old, new_entry) ==
  IF any(old, new_entry.file_name)
    THEN find(old, new_entry.file_name).sha # new_entry.sha
    ELSE FALSE

RECURSIVE NewEntries(_, _)
\* first loop: the rows of the new manifest, tagged Added or Modified
NewEntries(old, new) ==
  IF new = <<>> THEN <<>>
  ELSE LET new_entry == Head(new) IN
       (IF added(old, new_entry) THEN <<Tagged(new_entry, "Added")>>
        ELSE IF modified(old, new_entry)
               THEN <<Tagged(new_entry, "Modified")>>
               ELSE <<>>)
         \o NewEntries(old, Tail(new))

\* !new_file_names.contains(&old_entry.file_name)
removed_Never(names, old_entry) == FALSE
removed(names, old_entry) == old_entry.file_name \notin names

RECURSIVE OldEntries(_, _)
\* second loop: the rows of the old manifest missing from the new one
OldEntries(old, names) ==
  IF old = <<>> THEN <<>>
  ELSE (IF removed(names, Head(old))
          THEN <<Tagged(Head(old), "Removed")>> ELSE <<>>)
         \o OldEntries(Tail(old), names)

read_or_generate_delta_manifest_RemovedFirst(old, new) ==
  OldEntries(old, new_file_names(new)) \o NewEntries(old, new)
\* the delta manifest generated when none is cached
read_or_generate_delta_manifest(old, new) ==
  NewEntries(old, new) \o OldEntries(old, new_file_names(new))

RECURSIVE SkipOver(_, _)
\* while current_file.is_directory() || current_file.is_empty(): advance the
\* cursor; at the end of the delta the cursor stays where it is
SkipOver(delta, k) ==
  IF (is_directory(delta[k]) \/ is_empty(delta[k])) /\ k < Len(delta)
    THEN SkipOver(delta, k + 1)
    ELSE k

\* usize::from(record.id) + 1 == current_file.chunks
FileDone_Never(record, current_file) == FALSE
FileDone(record, current_file) == record.id + 1 = current_file.chunks

RECURSIVE DeltaChunks(_, _, _)
\* the loop over the new chunk manifest, the cursor current_file at delta[k]
DeltaChunks(delta, k, records) ==
  IF records = <<>> THEN <<>>
  ELSE IF delta[k].tag = "Removed" THEN <<>>
  ELSE LET c == SkipOver(delta, k)
           record == Head(records) IN
       IF record.file_path # delta[c].file_name
         THEN DeltaChunks(delta, c, Tail(records))
         ELSE IF FileDone(record, delta[c])
                THEN IF c = Len(delta)
                       THEN <<record>>
                       ELSE <<record>> \o DeltaChunks(delta, c + 1,
                                                      Tail(records))
                ELSE <<record>> \o DeltaChunks(delta, c, Tail(records))

\* the delta chunk manifest generated when none is cached; delta # <<>>
read_or_generate_delta_chunks_manifest(delta, new_chunks) ==
  DeltaChunks(delta, 1, new_chunks)

\* if let Ok(exising_delta) = read_build_manifest(..).await
Cached_Never(file) == FALSE
Cached(file) == file.present

\* utils::update: read_or_generate_delta_manifest(...).await?
GenerateDelta ==
  /\ mpc = "delta"
  /\ IF Cached(delta_store.delta)
       THEN \* "Using existing delta manifest"
            /\ fm' = delta_store.delta.bytes
            /\ mpc' = "delta_chunks"
            /\ UNCHANGED <<installRes, delta_store>>
       ELSE \/ /\ fm' = read_or_generate_delta_manifest(old_fm, new_fm)
               /\ delta_store' = [delta_store EXCEPT !.delta = File(fm')]
               /\ mpc' = "delta_chunks"
               /\ UNCHANGED installRes
            \/ \* store_build_manifest failed: `?` returns the error
               /\ installRes' = "Err"
               /\ mpc' = "handle"
               /\ UNCHANGED <<fm, delta_store>>
  /\ UNCHANGED <<installed, installed0, args, libVars, storeVars, cm, pipeVars,
                 delta_store0>>

\* delta_manifest.next().expect(..) on a delta without rows: where the run
\* goes
expect_None_Returns == "handle"
expect_None == "panicked"

\* utils::update: read_or_generate_delta_chunks_manifest(...).await? and the
\* info_only return
GenerateDeltaChunks ==
  /\ mpc = "delta_chunks"
  /\ LET cached == Cached(delta_store.delta_chunks) IN
     IF ~cached /\ fm = <<>>
       THEN \* delta_manifest.next() is None: expect() panics
            /\ mpc' = expect_None
            /\ UNCHANGED <<cm, installRes, dpc, delta_store>>
       ELSE \/ /\ cm' = IF cached
                          THEN \* "Using existing chunks delta manifest"
                               delta_store.delta_chunks.bytes
                          ELSE read_or_generate_delta_chunks_manifest(fm,
                                                                      new_cm)
               /\ delta_store' =
                    IF cached THEN delta_store
                    ELSE [delta_store EXCEPT !.delta_chunks = File(cm')]
               /\ IF opts.info
                    THEN /\ installRes' = "Ok(None)"
                         /\ mpc' = "handle"
                         /\ UNCHANGED dpc
                    ELSE /\ mpc' = "build"
                         /\ dpc' = "phaseA"
                         /\ UNCHANGED installRes
            \/ \* store_build_manifest failed: `?` returns the error
               /\ ~cached
               /\ installRes' = "Err"
               /\ mpc' = "handle"
               /\ UNCHANGED <<cm, dpc, delta_store>>
  /\ UNCHANGED <<installed, installed0, args, libVars, storeVars, fm, fs, row,
                 file_chunk_num_map, write_queue, task, got, chan, in_buffer,
                 file_map, wpc, whold, result, appended, faults,
                 delta_store0>>

\* ---------------------------------------------------------------- update
\* main.rs: Commands::Update up to the call of utils::update; the record is
\* removed from the loaded map only, nothing is stored
MainUpdateStart ==
  /\ mpc = "start"
  /\ cmd = "update"
  /\ IF installed[Slug] = "none"
       THEN mpc' = "exit"
       ELSE \E o \in {"ok", "not_in_library", "version_not_found"} :
              mpc' = IF o = "ok" THEN "update" ELSE "exit"
  /\ UNCHANGED <<installed, installed0, args, libVars, cacheVars, storeVars, installRes, fm, cm,
                 pipeVars>>

\* utils::update up to the call of read_or_generate_delta_manifest
UpdateFetch ==
  /\ mpc = "update"
  /\ \/ \* product or latest version not found, the version is the installed
        \* one, or a manifest request failed
        /\ installRes' = "Ok(None)"
        /\ mpc' = "handle"
        /\ UNCHANGED storeVars
     \/ \* read_build_manifest or store_build_manifest failed
        /\ installRes' = "Err"
        /\ mpc' = "handle"
        /\ UNCHANGED storeVars
     \/ /\ \E m \in UpdateManifests : new_fm' = m.fm /\ new_cm' = m.cm
        /\ mpc' = "delta"
        /\ UNCHANGED installRes
  /\ UNCHANGED <<installed, installed0, args, libVars, cacheVars, fm, cm, pipeVars>>

\* build_from_manifest(...).await?; Ok((.., Some(version)))
UpdateResult_Some(res) == "Ok(Some)"
UpdateResult(res) == IF res = "Err" THEN "Err" ELSE "Ok(Some)"

\* utils::update after build_from_manifest returned
UpdateReturn ==
  /\ mpc = "build"
  /\ cmd = "update"
  /\ dpc = "returned"
  /\ installRes' = UpdateResult(result)
  /\ mpc' = "handle"
  /\ UNCHANGED <<installed, installed0, args, libVars, cacheVars, storeVars, fm, cm, pipeVars>>

\* main.rs: the match on the result of utils::update
MainUpdateHandle ==
  /\ mpc = "handle"
  /\ cmd = "update"
  /\ installed' = IF installRes = "Ok(Some)"
                    THEN [installed EXCEPT ![Slug] = Version]
                    ELSE installed
  /\ mpc' = "exit"
  /\ UNCHANGED <<installed0, args, libVars, cacheVars, storeVars, installRes, fm, cm, pipeVars>>

\* ------------------------------------------------------------- uninstall
\* main.rs: Commands::Uninstall, installed.remove(&slug)
MainUninstallStart ==
  /\ mpc = "start"
  /\ cmd = "uninstall"
  /\ mpc' = IF installed[Slug] = "none" THEN "exit" ELSE "uninstall"
  /\ UNCHANGED <<installed, installed0, args, libVars, cacheVars, storeVars, installRes, fm, cm,
                 pipeVars>>

\* installed.store() after the folder was kept, removed or not removed
StoresAfter_IfRemoved(folder_removed) == folder_removed
StoresAfter(folder_removed) == TRUE

\* main.rs: utils::uninstall (remove_dir_all) unless --keep, then the store
MainUninstall ==
  /\ mpc = "uninstall"
  /\ \E folder_removed \in IF keep THEN {FALSE} ELSE BOOLEAN :
       /\ IF folder_removed
            THEN fs' = [p \in Paths |-> Absent]
            ELSE IF keep
                   THEN fs' = fs
                   ELSE \* remove_dir_all failed, after removing some paths
                        \E gone \in (SUBSET Paths) \ {Paths} :
                          fs' = [p \in Paths |->
                                   IF p \in gone THEN Absent ELSE fs[p]]
       /\ installed' = IF StoresAfter(folder_removed)
                         THEN [installed EXCEPT ![Slug] = "none"]
                         ELSE installed
  /\ mpc' = "exit"
  /\ UNCHANGED <<installed0, args, libVars, cacheVars, storeVars, installRes, fm, cm, dpc, row,
                 file_chunk_num_map, write_queue, task, got, chan, in_buffer,
                 file_map, wpc, whold, result, appended, faults>>

\* ---------------------------------------------------------------- verify
\* a path whose file cannot be opened for reading
Unreadable == [kind |-> "unreadable", content |-> <<>>]

\* tokio::fs::try_exists(&file_path)
try_exists(tree, path) == tree[path].kind # "absent"

\* Ok(file_sha == sha), or the io error of File::open / io::copy
verify_file_hash(tree, path, sha) ==
  IF tree[path].kind = "file"
    THEN IF FileSha(tree[path].content) = sha THEN "Ok(true)" ELSE "Ok(false)"
    ELSE "Err"

\* the spawned task: match verify_file_hash { Ok(result) => result,
\* Err(err) => false }
HandleResult_ErrPasses(r) == r # "Ok(false)"
HandleResult(r) == r = "Ok(true)"

RECURSIVE VerifyLoop(_, _, _)
\* the loop over the records of the manifest, then the loop over handles
VerifyLoop(records, tree, handles) ==
  IF records = <<>>
    THEN \A i \in DOMAIN handles : handles[i]
    ELSE LET record == Head(records) IN
         IF is_directory(record)
           THEN VerifyLoop(Tail(records), tree, handles)
           ELSE IF ~try_exists(tree, record.file_name)
                  THEN FALSE
                  ELSE VerifyLoop(Tail(records), tree,
                         Append(handles,
                                HandleResult(verify_file_hash(
                                  tree, record.file_name, record.sha))))

verify(manifest, tree) ==
  IF VerifyLoop(manifest, tree, <<>>) THEN "Ok(true)" ELSE "Ok(false)"

\* main.rs: Commands::Verify up to the call of utils::verify
MainVerifyStart ==
  /\ mpc = "start"
  /\ cmd = "verify"
  /\ mpc' = IF installed[Slug] = "none" THEN "exit" ELSE "verify"
  /\ UNCHANGED <<installed, installed0, args, libVars, cacheVars, storeVars, installRes, fm, cm,
                 pipeVars>>

\* utils::verify
Verify ==
  /\ mpc = "verify"
  /\ \/ installRes' = verify(old_fm, fs)
     \/ \* read_build_manifest failed
        installRes' = "Err"
  /\ mpc' = "exit"
  /\ UNCHANGED <<installed, installed0, args, libVars, cacheVars, storeVars, fm, cm, pipeVars>>

\* ------------------------------------------------ Phase A: plan the tree
Put(f, k, v) == [x \in DOMAIN f \cup {k} |-> IF x = k THEN v ELSE f[x]]
Drop(f, k) == [x \in DOMAIN f \ {k} |-> f[x]]

\* the tree after the delete step of a Modified / Removed row
AfterDelete(tree, r) ==
  IF r.tag \in {"Modified", "Removed"}
    THEN IF is_directory(r)
           THEN IF tree[r.file_name].kind = "dir"
                  THEN [tree EXCEPT ![r.file_name] = Absent] ELSE tree
           ELSE IF tree[r.file_name].kind = "file"
                  THEN [tree EXCEPT ![r.file_name] = Absent] ELSE tree
    ELSE tree

\* rows for which the loop body ends at a `continue`
SkipsPrepare(r) ==
  /\ r.tag \in {"Modified", "Removed"}
  /\ is_directory(r) \/ r.tag = "Removed"

\* create_dir when the path is absent; File::create, which truncates
prepare_file_Keep(tree, name, isdir) ==
  IF tree[name].kind = "absent"
    THEN [tree EXCEPT ![name] = IF isdir THEN Dir ELSE EmptyFile]
    ELSE tree
prepare_file(tree, name, isdir) ==
  IF isdir
    THEN IF tree[name].kind = "absent" THEN [tree EXCEPT ![name] = Dir]
                                       ELSE tree
    ELSE [tree EXCEPT ![name] = EmptyFile]

\* File::create on a path that is a directory returns an error
CreateFails(tree, r) ==
  ~SkipsPrepare(r) /\ ~is_directory(r) /\ tree[r.file_name].kind = "dir"

\* does the delete step of row r touch the disk (and so can fail)?
Deletes(tree, r) == AfterDelete(tree, r) # tree
\* does prepare_file touch the disk for row r?
Creates(tree, r) ==
  ~SkipsPrepare(r) /\ (is_directory(r) => tree[r.file_name].kind = "absent")

PhaseA ==
  /\ dpc = "phaseA"
  /\ IF row > Len(fm)
       THEN /\ dpc' = "phaseB"
            /\ row' = 1
            /\ UNCHANGED <<fs, file_chunk_num_map, result, faults>>
       ELSE LET r == fm[row]
                t == AfterDelete(fs, r) IN
            \/ /\ ~CreateFails(t, r)
               /\ row' = row + 1
               /\ dpc' = dpc
               /\ IF SkipsPrepare(r)
                    THEN fs' = t /\ UNCHANGED file_chunk_num_map
                    ELSE /\ fs' = prepare_file(t, r.file_name, is_directory(r))
                         /\ file_chunk_num_map' =
                              IF is_directory(r) THEN file_chunk_num_map
                              ELSE Put(file_chunk_num_map, r.file_name,
                                       r.chunks)
               /\ UNCHANGED <<result, faults>>
            \/ \* a filesystem call of this row fails: `?` returns the error
               /\ faults < MaxFaults
               /\ faults' = faults + 1
               /\ \/ Deletes(fs, r) /\ fs' = fs
                  \/ Creates(t, r) /\ fs' = t
               /\ result' = "Err"
               /\ dpc' = "returned"
               /\ UNCHANGED <<row, file_chunk_num_map>>
            \/ /\ CreateFails(t, r)
               /\ fs' = t
               /\ result' = "Err"
               /\ dpc' = "returned"
               /\ UNCHANGED <<row, file_chunk_num_map, faults>>
  /\ UNCHANGED <<installed, installed0, args, libVars, cacheVars, storeVars,
                 mpc, installRes, fm, cm,
                 write_queue, task, got, chan, in_buffer, file_map, wpc,
                 whold, appended>>

\* ------------------------------------- Phase B: write plan and work queue
IsLast_Count(map, rec) == map[rec.file_path] = rec.id
IsLast(map, rec) == map[rec.file_path] - 1 = rec.id
PlanEntry(rec, last) == [sha |-> rec.sha, id |-> rec.id, is_last |-> last]

\* where the write task stands when it reaches `while write_queue.size() > 0`
WhileCheck_Recv(plan) == "recv"
WhileCheck(plan) == IF plan = <<>> THEN "done" ELSE "recv"

PhaseB ==
  /\ dpc = "phaseB"
  /\ IF row > Len(cm)
       THEN \* queues built: spawn the write task, enter the download loop
            /\ wpc' = WhileCheck(write_queue)
            /\ task' = [i \in 1..Len(cm) |-> "queued"]
            /\ got' = [i \in 1..Len(cm) |-> "none"]
            /\ row' = 1
            /\ dpc' = IF Len(cm) = 0 THEN "join" ELSE "dispatch"
            /\ UNCHANGED <<file_chunk_num_map, write_queue>>
       ELSE LET rec == cm[row]
                last == IsLast(file_chunk_num_map, rec) IN
            /\ rec.file_path \in DOMAIN file_chunk_num_map
            /\ file_chunk_num_map' =
                 IF last THEN Drop(file_chunk_num_map, rec.file_path)
                         ELSE file_chunk_num_map
            /\ write_queue' = Append(write_queue, PlanEntry(rec, last))
            /\ row' = row + 1
            /\ UNCHANGED <<dpc, wpc, task, got>>
  /\ UNCHANGED <<installed, installed0, args, libVars, cacheVars, storeVars,
                 mpc, installRes, fm, cm, fs,
                 chan, in_buffer, file_map, whold, result, appended, faults>>

\* ------------------------------------------- Phase C: driver and fetches
\* the driver takes a memory permit for the next record and spawns its task
Dispatch ==
  /\ dpc = "dispatch"
  /\ MemAvailable > 0
  /\ task' = [task EXCEPT ![row] = "spawned"]
  /\ row' = row + 1
  /\ dpc' = IF row + 1 > Len(cm) THEN "join" ELSE "dispatch"
  /\ UNCHANGED <<installed, installed0, args, libVars, cacheVars, storeVars,
                 mpc, installRes, fm, cm, fs,
                 file_chunk_num_map, write_queue, got, chan, in_buffer,
                 file_map, wpc, whold, result, appended, faults>>

\* a fetch task takes a download permit
AcquireDl(i) ==
  /\ task[i] = "spawned"
  /\ DlPermitFree(DlPermitsOut, opts.max_download_workers)
  /\ task' = [task EXCEPT ![i] = "downloading"]
  /\ UNCHANGED <<installed, installed0, args, libVars, cacheVars, storeVars,
                 mpc, installRes, fm, cm, fs,
                 dpc, row, file_chunk_num_map, write_queue, got, chan,
                 in_buffer, file_map, wpc, whold, result, appended, faults>>

ChunkShaPart(sha) == sha[Len(sha)]
verify_chunk_Accept(chunk, sha) == TRUE
verify_chunk(chunk, sha) == Sha256(chunk) = sha
ChunkCorrupted_Skip(o, rec, chunk) ==
  ~o.skip_verify /\ Len(rec.sha) >= 3
    /\ ~verify_chunk(chunk, ChunkShaPart(rec.sha))
ChunkCorrupted(o, rec, chunk) ==
  ~o.skip_verify /\ ~verify_chunk(chunk, ChunkShaPart(rec.sha))

Message_NoPermit(rec, chunk) ==
  [record |-> rec, chunk |-> chunk, permit |-> FALSE]
Message(rec, chunk) == [record |-> rec, chunk |-> chunk, permit |-> TRUE]

\* what download_chunk hands back: the served bytes, other bytes, or an error
Outcomes(sha) ==
  {[kind |-> "ok", chunk |-> Served(sha), fault |-> 0]}
    \cup {[kind |-> "ok", chunk |-> "bad", fault |-> 1],
          [kind |-> "err", chunk |-> "none", fault |-> 1]}

\* the fetch task from the return of download_chunk to its end: the download
\* permit is dropped; on Err the task panics; a corrupted chunk makes it
\* return false; otherwise the chunk is sent with its memory permit
Download(i) ==
  /\ task[i] = "downloading"
  /\ \E o \in Outcomes(cm[i].sha) :
       /\ faults + o.fault <= MaxFaults
       /\ faults' = faults + o.fault
       /\ got' = [got EXCEPT ![i] = o.chunk]
       /\ IF o.kind = "err"
            THEN task' = [task EXCEPT ![i] = "panicked"] /\ UNCHANGED chan
            ELSE IF ChunkCorrupted(opts, cm[i], o.chunk)
                   THEN task' = [task EXCEPT ![i] = "corrupt"]
                        /\ UNCHANGED chan
                   ELSE IF wpc = "panicked"
                          THEN \* the Receiver is gone: send is Err, unwrap
                               \* panics
                               task' = [task EXCEPT ![i] = "panicked"]
                               /\ UNCHANGED chan
                          ELSE /\ task' = [task EXCEPT ![i] = "sent"]
                               /\ chan' = Append(chan,
                                                 Message(cm[i], o.chunk))
  /\ UNCHANGED <<installed, installed0, args, libVars, cacheVars, storeVars,
                 mpc, installRes, fm, cm, fs,
                 dpc, row, file_chunk_num_map, write_queue, in_buffer,
                 file_map, wpc, whold, result, appended>>

\* ------------------------------------------------------- the write task
ChunkKey(id, sha) == <<id, sha>>
BufferEntry(msg) ==
  [file_path |-> msg.record.file_path, chunk |-> msg.chunk,
   permit |-> msg.permit]

\* every Sender is gone: the driver's, and the clone of each running task
Closed ==
  /\ ~tx_alive
  /\ \A i \in DOMAIN task : task[i] \notin {"spawned", "downloading"}

\* rx.recv().await: a message, or Err once the channel is closed and empty,
\* on which the loop is left and the task returns
WriterRecv ==
  /\ wpc = "recv"
  /\ \/ /\ chan # <<>>
        /\ LET msg == Head(chan) IN
             in_buffer' = Put(in_buffer,
                              ChunkKey(msg.record.id, msg.record.sha),
                              BufferEntry(msg))
        /\ chan' = Tail(chan)
        /\ wpc' = "drain"
     \/ /\ chan = <<>>
        /\ Closed
        /\ wpc' = "done"
        /\ UNCHANGED <<in_buffer, chan>>
  /\ UNCHANGED <<installed, installed0, args, libVars, cacheVars, storeVars,
                 mpc, installRes, fm, cm, fs,
                 dpc, row, file_chunk_num_map, write_queue, task, got,
                 file_map, whold, result, appended, faults>>

\* the key the writer looks up in its buffer
NextChunkKey_Any(plan, buf) ==
  IF DOMAIN buf = {} THEN ChunkKey(plan[1].id, plan[1].sha)
  ELSE CHOOSE k \in DOMAIN buf : TRUE
NextChunkKey(plan, buf) == ChunkKey(plan[1].id, plan[1].sha)

\* one turn of the inner loop, up to and including append_chunk
WriterWrite ==
  /\ wpc = "drain"
  /\ IF write_queue = <<>>
       THEN /\ wpc' = "done"
            /\ UNCHANGED <<fs, write_queue, in_buffer, file_map, whold,
                           appended>>
       ELSE LET key == NextChunkKey(write_queue, in_buffer) IN
            IF key \in DOMAIN in_buffer
              THEN LET e == in_buffer[key]
                       head == write_queue[1] IN
                   /\ in_buffer' = Drop(in_buffer, key)
                   /\ IF e.file_path \notin file_map
                         /\ fs[e.file_path].kind # "file"
                        THEN \* open_file failed: the write task panics
                             /\ wpc' = "panicked"
                             /\ UNCHANGED <<fs, write_queue, file_map, whold,
                                            appended>>
                        ELSE /\ file_map' = file_map \cup {e.file_path}
                             /\ write_queue' = Tail(write_queue)
                             /\ fs' = [fs EXCEPT ![e.file_path].content =
                                         Append(@, e.chunk)]
                             /\ appended' = Append(appended,
                                  [sha |-> key[2], id |-> key[1],
                                   file_path |-> e.file_path,
                                   chunk |-> e.chunk])
                             /\ whold' = <<[file_path |-> e.file_path,
                                           permit |-> e.permit,
                                           is_last |-> head.is_last]>>
                             /\ wpc' = "release"
              ELSE /\ wpc' = WhileCheck(write_queue)
                   /\ UNCHANGED <<fs, write_queue, in_buffer, file_map,
                                  whold, appended>>
  /\ UNCHANGED <<installed, installed0, args, libVars, cacheVars, storeVars,
                 mpc, installRes, fm, cm, dpc,
                 row, file_chunk_num_map, task, got, chan, result, faults>>

\* drop(permit), then the handle is removed after the file's last chunk
WriterRelease ==
  /\ wpc = "release"
  /\ whold' = <<>>
  /\ file_map' = IF whold[1].is_last THEN file_map \ {whold[1].file_path}
                                  ELSE file_map
  /\ wpc' = "drain"
  /\ UNCHANGED <<installed, installed0, args, libVars, cacheVars, storeVars,
                 mpc, installRes, fm, cm, fs,
                 dpc, row, file_chunk_num_map, write_queue, task, got, chan,
                 in_buffer, result, appended, faults>>

\* ------------------------------------------------------- Phase D: join
\* write_handler.await?, then Ok(true)
JoinResult_Ok(w) == "Ok(true)"
JoinResult(w) == IF w = "done" THEN "Ok(true)" ELSE "Err"

Join ==
  /\ dpc = "join"
  /\ wpc \in {"done", "panicked"}
  /\ result' = JoinResult(wpc)
  /\ dpc' = "returned"
  /\ UNCHANGED <<installed, installed0, args, libVars, cacheVars, storeVars,
                 mpc, installRes, fm, cm, fs,
                 row, file_chunk_num_map, write_queue, task, got, chan,
                 in_buffer, file_map, wpc, whold, appended, faults>>

Next ==
  \/ MainInstallStart
  \/ InstallFetch
  \/ InstallReturn
  \/ MainInstallHandle
  \/ MainUpdateStart
  \/ UpdateFetch
  \/ GenerateDelta
  \/ GenerateDeltaChunks
  \/ UpdateReturn
  \/ MainUpdateHandle
  \/ MainUninstallStart
  \/ MainUninstall
  \/ PhaseA
  \/ PhaseB
  \/ Dispatch
  \/ \E i \in DOMAIN task : AcquireDl(i)
  \/ \E i \in DOMAIN task : Download(i)
  \/ WriterRecv
  \/ WriterWrite
  \/ WriterRelease
  \/ Join

Spec == Init /\ [][Next]_vars
FairSpec == Spec /\ WF_vars(Next)

\* the delta computation of utils::update on its own: every pair of an
\* installed manifest and a target manifest, from the first delta call on
DeltaInit ==
  /\ installed = [s \in Slugs |-> "v0"]
  /\ installed0 = installed
  /\ opts = [max_memory_usage |-> MAX_CHUNK_SIZE, max_download_workers |-> 1,
             skip_verify |-> FALSE, info |-> FALSE]
  /\ cmd = "update"
  /\ keep = FALSE
  /\ \E m \in DeltaManifests : old_fm \in {m.fm, Reverse(m.fm)}
  /\ \E m \in DeltaManifests : new_fm = m.fm /\ new_cm = m.cm
  /\ mpc = "delta"
  /\ installRes = "none"
  /\ fm = <<>> /\ cm = <<>>
  /\ fs = [p \in Paths |-> Absent]
  /\ fs0 = fs
  /\ dpc = "idle"
  /\ row = 1
  /\ file_chunk_num_map = [p \in {} |-> 0]
  /\ write_queue = <<>>
  /\ task = <<>>
  /\ got = <<>>
  /\ chan = <<>>
  /\ in_buffer = [k \in {} |-> 0]
  /\ file_map = {}
  /\ wpc = "unspawned"
  /\ whold = <<>>
  /\ result = "none"
  /\ appended = <<>>
  /\ faults = 0
  /\ NoLibrary
  /\ tx_alive = TRUE
  /\ dropped = NotDropped
  /\ delta_store = EmptyStore
  /\ delta_store0 = delta_store

DeltaNext == GenerateDelta \/ GenerateDeltaChunks
DeltaSpec == DeltaInit /\ [][DeltaNext]_vars

\* manifests of the installed version in the runs with a retried update
CachedOld == { ManifestOf(es).fm : es \in InstalledChoices }

\* utils::update from the call of read_or_generate_delta_manifest on
CacheInit ==
  /\ installed = [s \in Slugs |-> "v0"]
  /\ installed0 = installed
  /\ opts \in {NoOpts, [NoOpts EXCEPT !.info = TRUE]}
  /\ cmd = "update"
  /\ keep = FALSE
  /\ old_fm \in CachedOld
  /\ \E m \in UpdateManifests : new_fm = m.fm /\ new_cm = m.cm
  /\ mpc = "delta"
  /\ installRes = "none"
  /\ fm = <<>> /\ cm = <<>>
  /\ fs = [p \in Paths |-> Absent]
  /\ fs0 = fs
  /\ dpc = "idle"
  /\ row = 1
  /\ file_chunk_num_map = [p \in {} |-> 0]
  /\ write_queue = <<>>
  /\ task = <<>>
  /\ got = <<>>
  /\ chan = <<>>
  /\ in_buffer = [k \in {} |-> 0]
  /\ file_map = {}
  /\ wpc = "unspawned"
  /\ whold = <<>>
  /\ result = "none"
  /\ appended = <<>>
  /\ faults = 0
  /\ NoLibrary
  /\ tx_alive = TRUE
  /\ dropped = NotDropped
  /\ delta_store = EmptyStore
  /\ delta_store0 = delta_store

\* the update is run again for the same pair of versions after an attempt
\* that ended before the InstallRecord was stored; the manifests of the
\* target version are fetched and stored anew
Retry ==
  /\ mpc \in {"handle", "panicked", "build"}
  /\ mpc' = "delta"
  /\ \E m \in UpdateManifests : new_fm' = m.fm /\ new_cm' = m.cm
  /\ fm' = <<>> /\ cm' = <<>>
  /\ installRes' = "none"
  /\ dpc' = "idle"
  /\ delta_store0' = delta_store
  /\ UNCHANGED <<installed, installed0, args, libVars, delta_store, fs, row,
                 file_chunk_num_map, write_queue, task, got, chan, in_buffer,
                 file_map, wpc, whold, result, appended, faults>>

CacheNext == GenerateDelta \/ GenerateDeltaChunks \/ Retry
CacheSpec == CacheInit /\ [][CacheNext]_vars

\* what an install tree can hold at a path when verify runs
TreeEntries ==
  {Absent, Dir, Unreadable}
    \cup {[kind |-> "file", content |-> Content(x)] : x \in FileShaSeqs}
    \cup {[kind |-> "file", content |-> <<"bad">>]}

\* the verify command: every installed manifest against every tree
VerifyInit ==
  /\ installed \in { [s \in Slugs |-> IF s = Slug THEN v ELSE "v0"] :
                       v \in {"none", "v0"} }
  /\ installed0 = installed
  /\ opts = [max_memory_usage |-> MAX_CHUNK_SIZE, max_download_workers |-> 1,
             skip_verify |-> FALSE, info |-> FALSE]
  /\ cmd = "verify"
  /\ keep = FALSE
  /\ \E m \in DeltaManifests : old_fm = m.fm
  /\ new_fm = <<>> /\ new_cm = <<>>
  /\ mpc = "start"
  /\ installRes = "none"
  /\ fm = <<>> /\ cm = <<>>
  /\ fs \in [Paths -> TreeEntries]
  /\ fs0 = fs
  /\ dpc = "idle"
  /\ row = 1
  /\ file_chunk_num_map = [p \in {} |-> 0]
  /\ write_queue = <<>>
  /\ task = <<>>
  /\ got = <<>>
  /\ chan = <<>>
  /\ in_buffer = [k \in {} |-> 0]
  /\ file_map = {}
  /\ wpc = "unspawned"
  /\ whold = <<>>
  /\ result = "none"
  /\ appended = <<>>
  /\ faults = 0
  /\ NoLibrary
  /\ tx_alive = TRUE
  /\ dropped = NotDropped
  /\ delta_store = EmptyStore
  /\ delta_store0 = delta_store

VerifyNext == MainVerifyStart \/ Verify
VerifySpec == VerifyInit /\ [][VerifyNext]_vars

\* ------------------------------------------------ the library functions
\* everything but the library variables, at rest
Resting ==
  /\ installed = [s \in Slugs |-> "v0"]
  /\ installed0 = installed
  /\ opts = NoOpts
  /\ cmd = "none"
  /\ keep = FALSE
  /\ old_fm = <<>>
  /\ new_fm = <<>> /\ new_cm = <<>>
  /\ installRes = "none"
  /\ fm = <<>> /\ cm = <<>>
  /\ fs = [p \in Paths |-> Absent]
  /\ fs0 = fs
  /\ dpc = "idle"
  /\ row = 1
  /\ file_chunk_num_map = [p \in {} |-> 0]
  /\ write_queue = <<>>
  /\ task = <<>>
  /\ got = <<>>
  /\ chan = <<>>
  /\ in_buffer = [k \in {} |-> 0]
  /\ file_map = {}
  /\ wpc = "unspawned"
  /\ whold = <<>>
  /\ result = "none"
  /\ appended = <<>>
  /\ faults = 0
  /\ tx_alive = TRUE
  /\ dropped = NotDropped
  /\ delta_store = EmptyStore
  /\ delta_store0 = delta_store

\* product.get_latest_version(os)
GetLatestVersion ==
  /\ mpc = "latest"
  /\ latest' = get_latest_version(product, os, target_os)
  /\ mpc' = "exit"
  /\ UNCHANGED <<installed, installed0, args, storeVars, installRes, fm, cm,
                 pipeVars, decoded, encoded, dropped,
                 cacheVars>>

\* every product, every --os, every build platform
LatestInit ==
  /\ Resting
  /\ mpc = "latest"
  /\ product \in Products
  /\ os \in BuildOs \cup {None}
  /\ target_os \in {"macos", "linux", "windows"}
  /\ latest = NoVersion
  /\ raw = <<>> /\ decoded = <<>> /\ encoded = <<>>

LatestNext == GetLatestVersion
LatestSpec == LatestInit /\ [][LatestNext]_vars

\* a manifest row is read: deserialize_with = "from_latin1_str"
Deserialize ==
  /\ mpc = "decode"
  /\ decoded' = from_latin1_str(raw)
  /\ mpc' = "encode"
  /\ UNCHANGED <<installed, installed0, args, storeVars, installRes, fm, cm,
                 pipeVars, latest, encoded, dropped,
                 cacheVars>>

\* the row is written back: serialize_with = "to_latin1_bytes"
Serialize ==
  /\ mpc = "encode"
  /\ encoded' = to_latin1_bytes(decoded)
  /\ mpc' = "exit"
  /\ UNCHANGED <<installed, installed0, args, storeVars, installRes, fm, cm,
                 pipeVars, latest, decoded, dropped,
                 cacheVars>>

Latin1Init ==
  /\ Resting
  /\ mpc = "decode"
  /\ product = <<>> /\ os = None /\ target_os = "linux"
  /\ latest = NoVersion
  /\ raw \in LatinNames
  /\ decoded = <<>> /\ encoded = <<>>

Latin1Next == Deserialize \/ Serialize
Latin1Spec == Latin1Init /\ [][Latin1Next]_vars

\* the write task on its own, from its spawn on, against every channel the
\* fetch tasks can leave behind: each task has sent its chunk or has ended
\* without sending, and the driver's Sender is held or gone
ChunkCount(files, name) ==
  LET k == CHOOSE i \in DOMAIN files : files[i].file_name = name IN
  files[k].chunks
WritePlan(files, records) ==
  [i \in DOMAIN records |->
     PlanEntry(records[i],
               ChunkCount(files, records[i].file_path) - 1 = records[i].id)]
SentBy(records, tasks) ==
  LET all == [i \in DOMAIN records |->
                [i |-> i, msg |-> Message(records[i], Served(records[i].sha))]]
      sent == SelectSeq(all, LAMBDA x : tasks[x.i] = "sent") IN
  [j \in DOMAIN sent |-> sent[j].msg]

WriterInit ==
  /\ installed = [s \in Slugs |-> IF s = Slug THEN "none" ELSE "v0"]
  /\ installed0 = installed
  /\ opts = [NoOpts EXCEPT
               !.max_memory_usage = MaxMemChunks * MAX_CHUNK_SIZE]
  /\ cmd = "install"
  /\ keep = FALSE
  /\ old_fm = <<>>
  /\ mpc = "build"
  /\ installRes = "none"
  /\ \E m \in ManifestPairs :
       /\ m.cm # <<>>
       /\ fm = m.fm /\ cm = m.cm
       /\ new_fm = m.fm /\ new_cm = m.cm
  /\ fs = [p \in Paths |-> EmptyFile]
  /\ fs0 = [p \in Paths |-> Absent]
  /\ dpc = "join"
  /\ row = Len(cm) + 1
  /\ file_chunk_num_map = [p \in {} |-> 0]
  /\ write_queue = WritePlan(fm, cm)
  /\ task \in [1..Len(cm) -> {"sent", "panicked"}]
  /\ got = [i \in 1..Len(cm) |->
              IF task[i] = "sent" THEN Served(cm[i].sha) ELSE "none"]
  /\ chan = SentBy(cm, task)
  /\ Len(chan) <= max_chunks_in_memory(opts)
  /\ in_buffer = [k \in {} |-> 0]
  /\ file_map = {}
  /\ wpc = "recv"
  /\ whold = <<>>
  /\ result = "none"
  /\ appended = <<>>
  /\ faults = Cardinality({i \in DOMAIN task : task[i] = "panicked"})
  /\ NoLibrary
  /\ tx_alive \in BOOLEAN
  /\ dropped = NotDropped
  /\ delta_store = EmptyStore
  /\ delta_store0 = delta_store

WriterNext == WriterRecv \/ WriterWrite \/ WriterRelease \/ Join
WriterSpec == WriterInit /\ [][WriterNext]_vars

\* build_from_manifest on its own, with one memory permit and one download
\* worker: every manifest of directories, empty files and one-chunk files,
\* untagged (an install) or with a change tag on every row (an update), over
\* every tree the install path can hold
PlanEntries == {Unlisted, DirEntry, FileEntry(<<>>), FileEntry(<< <<"h1">> >>)}
TagChoices(n) == {[i \in 1..n |-> NoTag]} \cup [1..n -> ChangeTags]
PlanTrees ==
  [Paths -> {Absent, Dir, [kind |-> "file", content |-> <<"b1">>]}]
ChunkRowsOf(files) ==
  Concat([i \in DOMAIN files |->
            IF is_directory(files[i]) \/ files[i].tag = "Removed" THEN <<>>
            ELSE FileChunks(files[i].file_name,
                            [j \in 1..files[i].chunks |-> <<"h1">>])])

BuildInit ==
  /\ \E es \in [1..Len(FileNames) -> PlanEntries] :
       \E tags \in TagChoices(Len(ManifestOf(es).fm)) :
         fm = [i \in DOMAIN tags |-> Tagged(ManifestOf(es).fm[i], tags[i])]
  /\ cm = ChunkRowsOf(fm)
  /\ cmd = IF \E i \in DOMAIN fm : fm[i].tag # NoTag THEN "update"
                                                    ELSE "install"
  /\ installed = [s \in Slugs |-> IF s = Slug /\ cmd = "install"
                                    THEN "none" ELSE "v0"]
  /\ installed0 = installed
  /\ opts = NoOpts
  /\ keep = FALSE
  /\ old_fm = <<>>
  /\ new_fm = <<>> /\ new_cm = <<>>
  /\ mpc = "build"
  /\ installRes = "none"
  /\ fs \in PlanTrees
  /\ fs0 = fs
  /\ dpc = "phaseA"
  /\ row = 1
  /\ file_chunk_num_map = [p \in {} |-> 0]
  /\ write_queue = <<>>
  /\ task = <<>>
  /\ got = <<>>
  /\ chan = <<>>
  /\ in_buffer = [k \in {} |-> 0]
  /\ file_map = {}
  /\ wpc = "unspawned"
  /\ whold = <<>>
  /\ result = "none"
  /\ appended = <<>>
  /\ faults = 0
  /\ NoLibrary
  /\ tx_alive = TRUE
  /\ dropped = NotDropped
  /\ delta_store = EmptyStore
  /\ delta_store0 = delta_store

BuildNext ==
  \/ PhaseA
  \/ PhaseB
  \/ Dispatch
  \/ \E i \in DOMAIN task : AcquireDl(i)
  \/ \E i \in DOMAIN task : Download(i)
  \/ WriterRecv
  \/ WriterWrite
  \/ WriterRelease
  \/ Join
BuildSpec == BuildInit /\ [][BuildNext]_vars

\* build_from_manifest and a caller that can drop its future while it waits
\* for a memory permit or for the write task: the driver's Sender, the
\* JoinHandle and the work queue go; tasks started by tokio::spawn are
\* detached and run on
Drop_future ==
  /\ dpc \in {"dispatch", "join"}
  /\ dpc' = "dropped"
  /\ tx_alive' = FALSE
  /\ dropped' = [appends |-> Len(appended),
                 sent |-> Cardinality(Indices(task, {"sent"}))]
  /\ UNCHANGED <<installed, installed0, storeVars, opts, cmd, keep, fs0,
                 old_fm, product, os, target_os, raw, latest, decoded,
                 encoded, mpc, installRes, fm, cm, fs, row,
                 file_chunk_num_map, write_queue, task, got, chan, in_buffer,
                 file_map, wpc, whold, result, appended, faults, cacheVars>>

CancelNext == BuildNext \/ Drop_future
CancelSpec == BuildInit /\ [][CancelNext]_vars

\* open_file or append_chunk returns an io error for the chunk at the head of
\* the plan: unwrap_or_else panics, and the unwinding task drops its buffer,
\* its file handles and the permit of the chunk
AppendFails ==
  /\ wpc = "drain"
  /\ write_queue # <<>>
  /\ NextChunkKey(write_queue, in_buffer) \in DOMAIN in_buffer
  /\ faults < MaxFaults
  /\ faults' = faults + 1
  /\ wpc' = "panicked"
  /\ in_buffer' = [k \in {} |-> 0]
  /\ file_map' = {}
  /\ UNCHANGED <<installed, installed0, args, libVars, cacheVars, storeVars,
                 mpc, installRes, fm, cm, fs, dpc, row, file_chunk_num_map,
                 write_queue, task, got, chan, whold, result, appended>>

\* the pipeline on a disk whose calls can fail in Phase A and in the writer
IoNext == BuildNext \/ AppendFails
IoSpec == BuildInit /\ [][IoNext]_vars

TypeOK ==
  /\ mpc \in {"start", "install", "update", "delta", "delta_chunks", "build",
             "handle", "uninstall", "verify", "exit", "panicked", "latest",
             "decode", "encode"}
  /\ dpc \in {"idle", "phaseA", "phaseB", "dispatch", "join", "returned",
             "dropped"}
  /\ wpc \in {"unspawned", "recv", "drain", "release", "done", "panicked"}
  /\ MemAvailable >= 0

\* ------------------------------------------------------------ properties
Active == {"spawned", "downloading"}
\* chunk buffers in memory: being filled by a download, in the channel, or
\* in the writer's buffer
Resident == Cardinality(Indices(task, {"downloading"})) + Len(chan)
              + Cardinality(DOMAIN in_buffer)

RECURSIVE SumSizes(_)
SumSizes(chunks) ==
  IF chunks = <<>> THEN 0
  ELSE PayloadSize(Head(chunks)) + SumSizes(Tail(chunks))

RECURSIVE BufChunks(_)
BufChunks(b) ==
  IF DOMAIN b = {} THEN <<>>
  ELSE LET k == CHOOSE x \in DOMAIN b : TRUE IN
       <<b[k].chunk>> \o BufChunks(Drop(b, k))

ResidentBytes ==
  Cardinality(Indices(task, {"downloading"})) * MAX_CHUNK_SIZE
    + SumSizes([i \in DOMAIN chan |-> chan[i].chunk])
    + SumSizes(BufChunks(in_buffer))

\* the driver, every fetch task and the writer are blocked
AllBlocked ==
  /\ dpc \in {"dispatch", "join"}
  /\ dpc = "dispatch" => MemAvailable <= 0
  /\ wpc = "recv"
  /\ chan = <<>>
  /\ \A i \in DOMAIN task : task[i] \notin Active

FileAppends(f) == SelectSeq(appended, LAMBDA e : e.file_path = f)
Keys(s) == [i \in DOMAIN s |-> <<s[i].sha, s[i].id>>]
RowsOf(f) == SelectSeq([i \in DOMAIN cm |-> [row |-> i, rec |-> cm[i]]],
                       LAMBDA x : x.rec.file_path = f)
\* the bytes fetched for the chunks of f, in chunk manifest order
ChunksOf(f) == [k \in DOMAIN RowsOf(f) |-> got[RowsOf(f)[k].row]]

\* C1: for every file, the chunks appended to it so far are its chunks
\* 0, 1, 2, ... in this order (chunk i+1 never before chunk i), in every run
\* whose fetches all returned the served bytes
C1_AscendingPerFile ==
  faults = 0 =>
    \A f \in Paths :
      \A k \in DOMAIN FileAppends(f) : FileAppends(f)[k].id = k - 1

\* C2: when build_from_manifest has returned success, every non-directory,
\* non-Removed file of the manifest holds exactly the concatenation of its
\* chunks 0..chunk_count-1 (stated for the runs whose fetches all returned
\* the served bytes)
C2_FileIsConcatenation ==
  (result = "Ok(true)" /\ faults = 0) =>
    \A r \in DOMAIN fm :
      (~is_directory(fm[r]) /\ fm[r].tag # "Removed") =>
        /\ fs[fm[r].file_name].kind = "file"
        /\ fs[fm[r].file_name].content = ChunksOf(fm[r].file_name)

C4_MemoryBound ==
  /\ Resident <= max_chunks_in_memory(opts) + 1
  /\ ResidentBytes <= opts.max_memory_usage + MAX_CHUNK_SIZE

C4_Witness ==
  /\ max_chunks_in_memory(opts) >= 1
  /\ Resident = max_chunks_in_memory(opts)
  /\ dpc = "dispatch"
  /\ MemAvailable = 0

\* C5: fetch tasks holding a download permit never exceed
\* max_download_workers
C5_DownloadBound == DlPermitsOut <= opts.max_download_workers

C5_Witness ==
  /\ DlPermitsOut = opts.max_download_workers
  /\ \E i \in DOMAIN task : task[i] = "spawned"

Verified(chunk, sha) == Sha256(chunk) = sha[Len(sha)]

\* C6: with skip_verify false, every chunk in the channel, in the writer's
\* buffer or appended to a file hashes to the last segment of its chunk sha
C6_OnlyVerifiedForwarded ==
  ~opts.skip_verify =>
    /\ \A i \in DOMAIN chan : Verified(chan[i].chunk, chan[i].record.sha)
    /\ \A k \in DOMAIN in_buffer : Verified(in_buffer[k].chunk, k[2])
    /\ \A i \in DOMAIN appended : Verified(appended[i].chunk, appended[i].sha)

C6_Witness ==
  /\ ~opts.skip_verify
  /\ \E i \in DOMAIN task : task[i] = "corrupt"
  /\ Len(appended) >= 1

\* C7: a chunk that failed verification does not leave the operation
\* waiting forever, and it is not reported as success
C7_CorruptionIsReported ==
  (\E i \in DOMAIN task : task[i] = "corrupt") =>
    /\ ~AllBlocked
    /\ result # "Ok(true)"

\* C8: with at least one memory permit and one download worker, every fetch
\* returning and every chunk verifying, the driver, the fetch tasks and the
\* writer are never all blocked
C8_NoDeadlock ==
  (/\ max_chunks_in_memory(opts) >= 1
   /\ opts.max_download_workers >= 1
   /\ \A i \in DOMAIN task : task[i] \notin {"corrupt", "panicked"})
    => ~AllBlocked

\* C9: a failed fetch does not leave the operation waiting forever, and it
\* is not reported as success
C9_FetchErrorAborts ==
  (\E i \in DOMAIN task : task[i] = "panicked") =>
    /\ ~AllBlocked
    /\ result # "Ok(true)"

\* C10: the persisted installed map changes only by gaining the slug's
\* record, and only after the pipeline returned success
C10_PersistOnlyOnSuccess ==
  cmd = "install" =>
    \/ installed = installed0
    \/ /\ result = "Ok(true)"
       /\ installed = [installed0 EXCEPT ![Slug] = Version]

C10_Witness == cmd = "install" /\ installed # installed0

\* ------------------------------------------------ delta manifest claims
DeltaGenerated ==
  cmd = "update" /\ mpc \in {"delta_chunks", "build", "panicked"}
ChunkDeltaGenerated == cmd = "update" /\ mpc = "build"

Retag(q, t) == [i \in 1..Len(q) |-> [q[i] EXCEPT !.tag = t]]
Names(m) == {m[i].file_name : i \in DOMAIN m}
ShaOf(m, name) ==
  (CHOOSE r \in {m[i] : i \in DOMAIN m} : r.file_name = name).sha
TagNames(d, t) == {d[i].file_name : i \in {j \in DOMAIN d : d[j].tag = t}}
RowTags(d) == [i \in 1..Len(d) |-> <<d[i].file_name, d[i].tag>>]

\* the delta the specification describes: new rows that are new or changed,
\* in the order of the new manifest, then old rows without a new row
AddedRows(old, new) ==
  SelectSeq(new, LAMBDA r : r.file_name \notin Names(old))
ChangedRows(old, new) ==
  SelectSeq(new, LAMBDA r : \/ r.file_name \notin Names(old)
                            \/ ShaOf(old, r.file_name) # r.sha)
ExpectedDelta(old, new) ==
  LET changed == ChangedRows(old, new) IN
  [i \in 1..Len(changed) |->
     [changed[i] EXCEPT !.tag = IF changed[i].file_name \in Names(old)
                                  THEN "Modified" ELSE "Added"]]
    \o Retag(SelectSeq(old, LAMBDA r : r.file_name \notin Names(new)),
             "Removed")

\* C13: the generated delta manifest is the new manifest's rows that are
\* absent from the old one (Added) or present with another sha (Modified),
\* in the new manifest's order, followed by the old manifest's rows absent
\* from the new one (Removed), in the old manifest's order
C13_DeltaRows == DeltaGenerated => fm = ExpectedDelta(old_fm, new_fm)

C13_Witness ==
  /\ DeltaGenerated
  /\ TagNames(fm, "Modified") # {}
  /\ TagNames(fm, "Removed") # {}
  /\ \E n \in Names(new_fm) \cap Names(old_fm) : n \notin Names(fm)

\* C14: every row of a generated delta manifest carries a change tag, and all
\* rows after a Removed row are Removed rows
C14_TagsAndOrder ==
  DeltaGenerated =>
    /\ \A i \in DOMAIN fm : fm[i].tag \in ChangeTags
    /\ \A i, j \in DOMAIN fm :
         (i < j /\ fm[i].tag = "Removed") => fm[j].tag = "Removed"

C14_Witness ==
  /\ DeltaGenerated
  /\ Len(fm) >= 3
  /\ fm[1].tag = "Added" /\ fm[2].tag = "Modified"
  /\ fm[Len(fm)].tag = "Removed"

\* C15: the delta of a file manifest against itself has no rows
C15_SelfDeltaEmpty == (DeltaGenerated /\ old_fm = new_fm) => fm = <<>>

C15_Witness == DeltaGenerated /\ old_fm = new_fm /\ Len(old_fm) >= 2

\* C16: the names Added from A to B are the names Removed from B to A and
\* the other way round; the names Modified are the same both ways, the row
\* carrying B's sha from A to B and A's sha from B to A
C16_DeltaSymmetry ==
  DeltaGenerated =>
    LET ab == fm
        ba == read_or_generate_delta_manifest(new_fm, old_fm) IN
    /\ TagNames(ab, "Added") = TagNames(ba, "Removed")
    /\ TagNames(ab, "Removed") = TagNames(ba, "Added")
    /\ TagNames(ab, "Modified") = TagNames(ba, "Modified")
    /\ \A i \in DOMAIN ab :
         ab[i].tag = "Modified" => ab[i].sha = ShaOf(new_fm, ab[i].file_name)
    /\ \A i \in DOMAIN ba :
         ba[i].tag = "Modified" => ba[i].sha = ShaOf(old_fm, ba[i].file_name)

C16_Witness ==
  /\ DeltaGenerated
  /\ \A t \in ChangeTags : TagNames(fm, t) # {}
  /\ \E i \in DOMAIN fm : fm[i].tag = "Modified" /\ fm[i].sha # <<>>

\* the update of scenario 5: a.txt unchanged, b.txt with another sha, c.txt
\* new (A, B, C stand for a.txt, b.txt, c.txt)
Scenario5 ==
  /\ RowTags(old_fm) = << <<"A", NoTag>>, <<"B", NoTag>> >>
  /\ RowTags(new_fm) = << <<"A", NoTag>>, <<"B", NoTag>>, <<"C", NoTag>> >>
  /\ \A i \in DOMAIN new_fm : ~is_directory(new_fm[i]) /\ ~is_empty(new_fm[i])
  /\ \A i \in DOMAIN old_fm : ~is_directory(old_fm[i]) /\ ~is_empty(old_fm[i])
  /\ old_fm[1].sha = new_fm[1].sha
  /\ old_fm[2].sha # new_fm[2].sha
OnlyChunksOf(chunks, names) ==
  \A i \in DOMAIN chunks : chunks[i].file_path \in names

\* C17 as claimed: in scenario 5 the delta rows are (c.txt, Added) then
\* (b.txt, Modified), and the chunk delta holds chunks of b.txt and c.txt only
C17_Scenario5AddedFirst ==
  (Scenario5 /\ DeltaGenerated) =>
    /\ RowTags(fm) = << <<"C", "Added">>, <<"B", "Modified">> >>
    /\ ChunkDeltaGenerated => OnlyChunksOf(cm, {"B", "C"})

\* C17 amended: in scenario 5 the delta rows are (b.txt, Modified) then
\* (c.txt, Added), the order of the new manifest, and the chunk delta holds
\* chunks of b.txt and c.txt only
C17_Scenario5NewOrder ==
  (Scenario5 /\ DeltaGenerated) =>
    /\ RowTags(fm) = << <<"B", "Modified">>, <<"C", "Added">> >>
    /\ ChunkDeltaGenerated => OnlyChunksOf(cm, {"B", "C"})

C17_Witness == Scenario5 /\ ChunkDeltaGenerated /\ Len(cm) >= 2

\* names of the delta rows whose chunks an update downloads
Wanted(delta) ==
  {delta[i].file_name :
     i \in {j \in DOMAIN delta : /\ delta[j].tag \in {"Added", "Modified"}
                                 /\ ~is_directory(delta[j])
                                 /\ ~is_empty(delta[j])}}

\* C18: the generated chunk delta is the new chunk manifest restricted to
\* the Added and Modified files that are neither directories nor empty, in
\* the new chunk manifest's order
C18_ChunkDeltaRows ==
  ChunkDeltaGenerated =>
    cm = SelectSeq(new_cm, LAMBDA r : r.file_path \in Wanted(fm))

C18_Witness ==
  /\ ChunkDeltaGenerated
  /\ Wanted(fm) # {}
  /\ \E i \in DOMAIN fm : is_directory(fm[i]) \/ is_empty(fm[i])
  /\ Len(cm) >= 2
  /\ Len(cm) < Len(new_cm)

\* ------------------------------------------------------- verify claims
\* the file at the path of a manifest row hashes to the row's sha
Intact(tree, r) ==
  /\ tree[r.file_name].kind = "file"
  /\ FileSha(tree[r.file_name].content) = r.sha
Verified_Run == cmd = "verify" /\ mpc = "exit" /\ installRes # "none"

\* C19: verify returns true exactly when every row of the installed
\* manifest that is not a directory names an existing file whose SHA-256 is
\* the row's sha; a missing or unhashable file makes it false, a directory
\* row never matters
C19_VerifyIffIntact ==
  (Verified_Run /\ installRes # "Err") =>
    (installRes = "Ok(true)" <=>
       \A i \in DOMAIN old_fm :
         ~is_directory(old_fm[i]) => Intact(fs, old_fm[i]))

C19_Witness ==
  /\ Verified_Run
  /\ installRes = "Ok(true)"
  /\ \E i \in DOMAIN old_fm :
       is_directory(old_fm[i]) /\ fs[old_fm[i].file_name].kind # "dir"
  /\ \E i \in DOMAIN old_fm : old_fm[i].chunks = MaxPerFile

\* ------------------------------------------- update and uninstall claims
Finished == mpc \in {"exit", "panicked"}

\* C11: an update replaces the persisted record by the new version only
\* after the pipeline returned success with its plan drained and no chunk
\* failing verification; an update that ends in any other way leaves the
\* persisted map as it was
C11_UpdateReplacesOnSuccess ==
  cmd = "update" =>
    /\ installed # installed0 =>
         /\ installed = [installed0 EXCEPT ![Slug] = Version]
         /\ result = "Ok(true)"
         /\ write_queue = <<>>
         /\ \A i \in DOMAIN task : task[i] \notin {"corrupt", "panicked"}
    /\ (Finished /\ installRes # "Ok(Some)") => installed = installed0

C11_Witness ==
  /\ cmd = "update"
  /\ installed # installed0
  /\ cm # <<>>
  /\ \E i \in DOMAIN fm : fm[i].tag = "Removed"

\* C12: uninstall removes the slug's record from the persisted map, with
\* --keep and when removing the directory fails alike; for a slug without a
\* record the persisted map and the install tree stay as they were
C12_UninstallRemovesRecord ==
  cmd = "uninstall" =>
    /\ (mpc = "exit" /\ installed0[Slug] # "none") =>
         installed = [installed0 EXCEPT ![Slug] = "none"]
    /\ installed0[Slug] = "none" => (installed = installed0 /\ fs = fs0)

C12_Witness ==
  /\ cmd = "uninstall"
  /\ mpc = "exit"
  /\ installed0[Slug] # "none"
  /\ installed[Slug] = "none"
  /\ \E p \in Paths : fs[p].kind # "absent"

\* C20: after an install or update that returned success, every file of the
\* target version's manifest hashes to the sha of its row, with and without
\* skip_verify
C20_SuccessMeansIntact ==
  (cmd \in {"install", "update"} /\ installRes = "Ok(Some)") =>
    \A i \in DOMAIN new_fm :
      ~is_directory(new_fm[i]) => Intact(fs, new_fm[i])

\* ------------------------------------------------ library claims
\* the os get_latest_version was asked for
RequestedOs ==
  IF os # None THEN os ELSE IF target_os = "macos" THEN "Mac" ELSE "Windows"
Matching == {i \in DOMAIN product : product[i].os = RequestedOs}

\* C21: get_latest_version returns a version of the requested os whose build
\* date is the maximum among the versions of that os, and None exactly when
\* the product lists no version of that os.
C21_LatestOfRequestedOs ==
  mpc = "exit" =>
    /\ latest = NoVersion <=> Matching = {}
    /\ latest # NoVersion =>
         /\ latest \in Matching
         /\ \A j \in Matching : product[j].date <= product[latest].date
C21_Witness ==
  /\ mpc = "exit"
  /\ latest # NoVersion
  /\ \E i, j \in Matching : i < j /\ product[i].date < product[j].date
  /\ \E k \in DOMAIN product :
       k \notin Matching /\ product[k].date > product[latest].date

\* C22: every byte of a name decodes to the code point of its own value, and
\* encoding the decoded name gives the bytes back.
C22_Latin1RoundTrip ==
  mpc = "exit" =>
    /\ chars_decode(decoded) = raw
    /\ encoded = raw
C22_Witness ==
  /\ mpc = "exit"
  /\ \E i \in DOMAIN raw : raw[i] >= 128
  /\ \E i \in DOMAIN raw : raw[i] < 128
  /\ Len(decoded) > Len(raw)
  /\ encoded = raw

\* ------------------------------------------------ dry runs
\* C23: with --info, install and update never enter build_from_manifest,
\* return without a new version, and leave the install tree and the persisted
\* map as they were.
C23_InfoIsDryRun ==
  (cmd \in {"install", "update"} /\ opts.info) =>
    /\ dpc = "idle" /\ wpc = "unspawned" /\ result = "none"
    /\ fs = fs0
    /\ installed = installed0
    /\ installRes \in {"none", "Ok(None)", "Ok(Err)", "Err"}
C23_Witness ==
  /\ cmd = "update" /\ opts.info
  /\ mpc = "exit"
  /\ installRes = "Ok(None)"
  /\ cm # <<>>
  /\ \E p \in Paths : fs[p].kind = "file"

\* ------------------------------------------------ memory permits
\* chunks the driver has spawned a fetch task for
Dispatched == Cardinality({i \in DOMAIN task : task[i] # "queued"})
\* chunks whose append and the drop(permit) after it are both done
Released == Len(appended) - Len(whold)

\* C24: the memory permits out of the semaphore are those of the chunks
\* dispatched and not yet appended (a permit leaves its chunk only by the
\* drop that follows the append), and none is out when the operation ends;
\* stated for the runs in which every fetch succeeds.
C24_PermitPerPendingChunk ==
  faults = 0 =>
    /\ MemPermitsOut = Dispatched - Released
    /\ dpc = "returned" => MemPermitsOut = 0

Holding(f) == whold # <<>> /\ whold[1].file_path = f
\* f has received a chunk and has not received its last one, or has just
\* received it
HandleDue(f) ==
  /\ FileAppends(f) # <<>>
  /\ \/ Len(FileAppends(f)) < ChunkCount(fm, f)
     \/ Holding(f)

\* C26: a file's handle is in the handle map from the file's first append
\* until right after the append of its is_last entry, and at no other time;
\* when the writer exits with an empty plan the handle map is empty. Stated
\* for the runs in which every fetch succeeds.
C26_HandleLifetime ==
  faults = 0 =>
    /\ \A f \in Paths : f \in file_map <=> HandleDue(f)
    /\ (wpc = "done" /\ write_queue = <<>>) => file_map = {}

\* ------------------------------------------------ Phase A claims
\* Phase A went through every row of the manifest without an error
PlannedOk == dpc = "phaseB" /\ row = 1 /\ result = "none"
RowsTagged(tags) == {i \in DOMAIN fm : fm[i].tag \in tags}

\* C27: after Phase A without error, the path of every Removed entry does
\* not exist, and no Removed entry is in the chunk-count map.
C27_RemovedAreGone ==
  PlannedOk =>
    \A i \in RowsTagged({"Removed"}) :
      /\ fs[fm[i].file_name].kind = "absent"
      /\ fm[i].file_name \notin DOMAIN file_chunk_num_map

\* C28: after Phase A without error, every directory entry that is not
\* tagged Removed (untagged, Added or Modified) exists as a directory.
C28_DirectoriesExist ==
  PlannedOk =>
    \A i \in RowsTagged({NoTag, "Added", "Modified"}) :
      is_directory(fm[i]) => fs[fm[i].file_name].kind = "dir"

\* the rows Phase A creates a file for
FileRows == {i \in DOMAIN fm : ~is_directory(fm[i]) /\ fm[i].tag # "Removed"}
\* Phase A is over without error and no chunk has been appended
NothingWritten == dpc \in {"phaseB", "dispatch", "join"} /\ appended = <<>>

\* C29: after Phase A without error and before any append, every
\* non-directory entry not tagged Removed is a file of length 0, whatever
\* its path held before; the writer opens, and appends to, only such files.
C29_FilesStartEmpty ==
  /\ NothingWritten => \A i \in FileRows : fs[fm[i].file_name] = EmptyFile
  /\ \A k \in DOMAIN appended :
       \E i \in FileRows : fm[i].file_name = appended[k].file_path
  /\ wpc # "panicked"
C29_Witness ==
  /\ result = "Ok(true)"
  /\ \E i \in FileRows :
       /\ fm[i].tag \in {NoTag, "Added"}
       /\ fm[i].chunks = 1
       /\ fs0[fm[i].file_name].content = <<"b1">>
       /\ fs[fm[i].file_name].content = <<"b1">>
  /\ \E i \in FileRows :
       /\ fm[i].tag = "Modified"
       /\ fs0[fm[i].file_name].content = <<"b1">>

\* ------------------------------------------------ empty files
\* file entries with size 0 and chunk count 0
EmptyRows == {i \in FileRows : fm[i].chunks = 0 /\ is_empty(fm[i])}
\* the manifest asks for directories and empty files only
NothingToFetch == FileRows = EmptyRows
\* Phase A is over without error
Planned ==
  \/ dpc \in {"phaseB", "dispatch", "join"}
  \/ dpc = "returned" /\ wpc # "unspawned"

\* C30: a file entry of size 0 and chunk count 0 is an empty file from the
\* end of Phase A to the end of the operation, no chunk is appended to it and
\* the writer never opens it; when the manifest has only directories and
\* empty files, no fetch task is started, the writer finishes at once and
\* build_from_manifest returns success.
C30_EmptyFiles ==
  /\ \A i \in EmptyRows :
       /\ Planned => fs[fm[i].file_name] = EmptyFile
       /\ fm[i].file_name \notin file_map
       /\ \A k \in DOMAIN appended : appended[k].file_path # fm[i].file_name
       /\ \A k \in DOMAIN cm : cm[k].file_path # fm[i].file_name
  /\ NothingToFetch =>
       /\ write_queue = <<>> /\ task = <<>> /\ chan = <<>>
       /\ dpc \in {"dispatch", "join", "returned"} /\ Planned => wpc = "done"
       /\ dpc = "returned" /\ Planned => result = "Ok(true)"
C30_Witness ==
  /\ NothingToFetch
  /\ result = "Ok(true)"
  /\ \E i \in DOMAIN fm : is_directory(fm[i]) /\ fm[i].tag # "Removed"
  /\ \E i \in EmptyRows : fs0[fm[i].file_name].content = <<"b1">>

\* ------------------------------------------------ Phase B claims
\* Phase B is running or has just queued its last row: plan entry j was made
\* from chunk row j
Planning == dpc = "phaseB"
PlanOf(f) == {j \in DOMAIN write_queue : cm[j].file_path = f}

\* C31: a plan entry is flagged is_last iff its id is the chunk count of its
\* file minus one; once every row is queued, each file with chunks has one
\* is_last entry and it is the last plan entry of the file.
C31_IsLastIffFinalChunk ==
  Planning =>
    /\ \A j \in DOMAIN write_queue :
         write_queue[j].is_last <=>
           cm[j].id = ChunkCount(fm, cm[j].file_path) - 1
    /\ row > Len(cm) =>
         \A f \in Paths :
           PlanOf(f) # {} =>
             /\ Cardinality({j \in PlanOf(f) : write_queue[j].is_last}) = 1
             /\ \A j \in PlanOf(f) :
                  write_queue[j].is_last <=> \A k \in PlanOf(f) : k <= j
C31_Witness ==
  /\ Planning /\ row > Len(cm)
  /\ \E j \in DOMAIN write_queue :
       /\ write_queue[j].is_last /\ cm[j].id = 0
       /\ PayloadSize(Served(cm[j].sha)) < MAX_CHUNK_SIZE
  /\ \E j \in DOMAIN write_queue :
       write_queue[j].is_last /\ cm[j].id = 1
  /\ \E j \in DOMAIN write_queue : ~write_queue[j].is_last

\* ------------------------------------------------ short chunk shas
\* fetch tasks that ran to their end with verification on, for a chunk whose
\* sha field has fewer than 3 segments
ShortShaChecked ==
  {i \in DOMAIN task :
     /\ ~opts.skip_verify
     /\ Len(cm[i].sha) < 3
     /\ task[i] \in {"sent", "corrupt"}}

\* C32 as stated: with verification on, a chunk whose sha field has fewer
\* than 3 segments is forwarded without a hash check, never rejected.
C32_ShortShaForwarded ==
  \A i \in ShortShaChecked : task[i] = "sent"

\* C32: with verification on, a chunk whose sha field has fewer than 3
\* segments is hash-checked against its last segment: it is forwarded when
\* the hashes agree and rejected as corrupted when they differ.
C32_ShortShaVerified ==
  \A i \in ShortShaChecked :
    task[i] = "sent" <=> Sha256(got[i]) = cm[i].sha[Len(cm[i].sha)]
C32_Witness ==
  /\ \E i \in ShortShaChecked : task[i] = "corrupt" /\ got[i] = "bad"
  /\ \E i \in ShortShaChecked : task[i] = "sent"

\* ------------------------------------------------ cancellation
\* C33: once the pipeline has been dropped, no fetch task delivers a chunk
\* and the writer appends nothing more.
C33_DropStopsPipeline ==
  dropped # NotDropped =>
    /\ Cardinality(Indices(task, {"sent"})) = dropped.sent
    /\ Len(appended) = dropped.appends

\* ------------------------------------------------ filesystem errors
FailedInPhaseA == dpc = "returned" /\ wpc = "unspawned"
LaterRows == {j \in DOMAIN fm : j > row}

\* C34: a filesystem error in Phase A returns an error at once, with no later
\* row processed, no write plan, no writer and no fetch; a filesystem error
\* of the writer makes the operation return an error, never success.
C34_IoErrorIsReturned ==
  /\ FailedInPhaseA =>
       /\ result = "Err"
       /\ row \in DOMAIN fm
       /\ \A j \in LaterRows : fs[fm[j].file_name] = fs0[fm[j].file_name]
       /\ write_queue = <<>>
       /\ task = <<>>
       /\ appended = <<>>
  /\ dpc = "returned" /\ wpc = "panicked" => result = "Err"
  /\ dpc = "returned" /\ result = "Ok(true)" => wpc = "done"
C34_Witness ==
  /\ FailedInPhaseA
  /\ result = "Err"
  /\ row > 1
  /\ fs # fs0
  /\ \E j \in LaterRows : ~SkipsPrepare(fm[j]) /\ fs0[fm[j].file_name] = Absent

\* ------------------------------------------------ cached delta manifests
DeltaReturned == mpc = "delta_chunks"
DeltaChunksReturned ==
  mpc = "build" \/ (mpc = "handle" /\ installRes = "Ok(None)")

\* C35: a delta manifest (delta chunk manifest) found in the store is
\* returned as stored, with no write to the store; when absent it is
\* computed, stored under the key and returned, so a retried update receives
\* the delta of the first attempt.
C35_StoredDeltaIsReused ==
  /\ DeltaReturned =>
       /\ delta_store.delta = File(fm)
       /\ delta_store.delta_chunks = delta_store0.delta_chunks
       /\ IF delta_store0.delta.present
            THEN delta_store = delta_store0
            ELSE fm = read_or_generate_delta_manifest(old_fm, new_fm)
  /\ DeltaChunksReturned =>
       /\ delta_store.delta = File(fm)
       /\ delta_store.delta_chunks = File(cm)
       /\ IF delta_store0.delta_chunks.present
            THEN delta_store.delta_chunks = delta_store0.delta_chunks
            ELSE cm = read_or_generate_delta_chunks_manifest(fm, new_cm)
C35_Witness ==
  /\ DeltaChunksReturned
  /\ delta_store0.delta.present
  /\ delta_store0.delta_chunks.present
  /\ fm # read_or_generate_delta_manifest(old_fm, new_fm)
  /\ fm # <<>>
  /\ cm # read_or_generate_delta_chunks_manifest(fm, new_cm)

\* ------------------------------------------------ the writer's buffer
Sent == Indices(task, {"sent"})
AppendsOf(i) ==
  {k \in DOMAIN appended :
     /\ appended[k].file_path = cm[i].file_path
     /\ appended[k].id = cm[i].id
     /\ appended[k].sha = cm[i].sha}
Buffered(i) ==
  /\ ChunkKey(cm[i].id, cm[i].sha) \in DOMAIN in_buffer
  /\ in_buffer[ChunkKey(cm[i].id, cm[i].sha)].file_path = cm[i].file_path
InChannel(i) == \E k \in DOMAIN chan : chan[k].record = cm[i]

\* C36: a chunk sent to the writer is in the channel, in the buffer under its
\* own file, or appended once to its own file; none is overwritten or lost,
\* also when chunks of different files share a buffer key.
C36_SentChunkAppendedOnce ==
  faults = 0 =>
    /\ \A i \in Sent :
         /\ Cardinality(AppendsOf(i)) <= 1
         /\ InChannel(i) \/ Buffered(i) \/ AppendsOf(i) # {}
    /\ Cardinality(Sent) = Len(chan) + Cardinality(DOMAIN in_buffer)
                             + Len(appended)

\* ------------------------------------------------ permits and the plan head
\* the chunk manifest row of the head of the write plan
HeadRow == Len(cm) - Len(write_queue) + 1
WriterWaitsForHead ==
  /\ wpc = "recv"
  /\ write_queue # <<>>
  /\ NextChunkKey(write_queue, in_buffer) \notin DOMAIN in_buffer
HeadHoldsPermit ==
  \/ task[HeadRow] \in {"spawned", "downloading"}
  \/ \E k \in DOMAIN chan : chan[k].record = cm[HeadRow] /\ chan[k].permit
HeadCanProceed == HeadHoldsPermit \/ MemAvailable > 0

\* C37: while the writer waits for the head of the write plan, the head chunk
\* has been dispatched and holds a memory permit, or a permit is free; stated
\* for a semaphore created with at least one permit.
C37_HeadNeverStarved ==
  (WriterWaitsForHead /\ max_chunks_in_memory(opts) >= 1) => HeadCanProceed

\* ------------------------------------------------ a semaphore of no permit
BelowOneChunk == opts.max_memory_usage < MAX_CHUNK_SIZE
DownloadLoopEntered == wpc # "unspawned" /\ cm # <<>>

\* C38: with max_memory_usage below one chunk the semaphore has no permit;
\* with a chunk to fetch the driver stays at its first acquisition, no fetch
\* task is spawned, nothing is appended and the operation has not returned.
C38_ZeroPermitsBlock ==
  BelowOneChunk =>
    /\ max_chunks_in_memory(opts) = 0
    /\ DownloadLoopEntered =>
         /\ dpc = "dispatch"
         /\ row = 1
         /\ \A i \in DOMAIN task : task[i] = "queued"
         /\ ~ENABLED Dispatch
         /\ chan = <<>>
         /\ appended = <<>>
         /\ wpc = "recv"
         /\ result = "none"
C38_Witness ==
  /\ BelowOneChunk
  /\ opts.max_memory_usage > 0
  /\ DownloadLoopEntered
  /\ Len(cm) >= 2
  /\ dpc = "dispatch"

\* ------------------------------------------------ an update without changes
SameFiles(old, new) ==
  {<<old[i].file_name, old[i].sha>> : i \in DOMAIN old}
    = {<<new[i].file_name, new[i].sha>> : i \in DOMAIN new}
EmptyDeltaGenerated ==
  /\ cmd = "update"
  /\ delta_store.delta = File(<<>>)
  /\ ~delta_store0.delta_chunks.present

\* C39: with an empty delta manifest and no cached chunk delta the update
\* panics in read_or_generate_delta_chunks_manifest: no chunk delta is
\* produced, no path of the install tree is touched and the InstallRecord is
\* as before.
C39_EmptyDeltaPanics ==
  /\ EmptyDeltaGenerated =>
       /\ mpc \in {"delta_chunks", "panicked"}
       /\ ~delta_store.delta_chunks.present
       /\ dpc = "idle"
       /\ fs = fs0
       /\ installed = installed0
  /\ (cmd = "update" /\ delta_store.delta.present) =>
       (delta_store.delta.bytes = <<>> <=> SameFiles(old_fm, new_fm))
C39_Witness ==
  /\ EmptyDeltaGenerated
  /\ mpc = "panicked"
  /\ Len(old_fm) >= 2
  /\ \E p \in Paths : fs0[p].kind = "file"

\* ------------------------------------------------ what an update leaves alone
\* installed files with the same name and sha in the old and new manifests
UnchangedFiles ==
  {old_fm[i].file_name : i \in
     {k \in DOMAIN old_fm :
        /\ ~is_directory(old_fm[k])
        /\ \E j \in DOMAIN new_fm :
             /\ new_fm[j].file_name = old_fm[k].file_name
             /\ new_fm[j].sha = old_fm[k].sha}}
Updating == cmd = "update" /\ new_fm # <<>>

\* C40: an update changes only paths named by rows of the delta manifest; an
\* installed file with the same name and sha in both manifests keeps its
\* content through the whole update.
C40_UpdateTouchesOnlyDelta ==
  Updating =>
    /\ \A p \in Paths \ Names(fm) : fs[p] = fs0[p]
    /\ \A p \in UnchangedFiles : p \notin Names(fm) /\ fs[p] = fs0[p]
C40_Witness ==
  /\ Updating
  /\ mpc = "exit"
  /\ installed[Slug] = Version
  /\ \E p \in UnchangedFiles : fs0[p].kind = "file" /\ fs0[p].content # <<>>
  /\ \E p \in Names(fm) : fs[p] # fs0[p] /\ fs[p].kind = "file"
  /\ \E i \in DOMAIN fm : fm[i].tag = "Removed" /\ fs[fm[i].file_name] = Absent
                            /\ fs0[fm[i].file_name] # Absent

====
